---------------------------- MODULE Spec2Model ----------------------------
(***************************************************************************)
(* Model of server.py: the request handlers of the relationship manager,   *)
(* the database tables they read and write (users, relationships, events)  *)
(* and the Flask session.  One request is served at a time.  The event     *)
(* generation of method_specification_success is modelled statement by     *)
(* statement (while test, one pass of the for body, commit).               *)
(*                                                                         *)
(* Dates are calendar dates [y, m, d].  The stored created_date is a       *)
(* datetime, but every shift in the handler keeps the time of day, so the  *)
(* order of two dates of one run is the order of their calendar dates.     *)
(***************************************************************************)
EXTENDS Integers, Sequences, FiniteSets, TLC

\* Longest list of outreach methods a form submits.
MaxMethods == 2

\* Number of method submissions served in one behaviour.
MaxSubmits == 2

\* Longest list of flashed messages the session holds.
MaxFlashes == 2

\* The recommendations the method page lists as 'rcmdn' checkboxes, in page order.
Recommendations == << "call", "email", "text" >>

\* Creation dates of the relationship found in the database at start-up.
CreatedDates ==
    { [y |-> 2024, m |-> 1, d |-> 15],
      [y |-> 2023, m |-> 3, d |-> 31],
      [y |-> 2024, m |-> 2, d |-> 29],
      [y |-> 2023, m |-> 1, d |-> 31],
      [y |-> 2023, m |-> 8, d |-> 31],
      [y |-> 2023, m |-> 12, d |-> 31] }

\* Ids that appear in URLs and forms; relationship 2 does not exist.
UrlUserIds == {1, 2}
UrlRelatpIds == {1, 2}

\* Values a form posts for the field being updated.
FormValues == {"xyz"}
TypeButtons == {"relatp_type", "first_name"}

\* Values of the fb_id query argument of /register; "" is an absent argument.
FbIds == {"", "77"}

Emails == {"a@x", "b@x"}
Passwords == {"p1", "p2"}

NoDate == [y |-> 0, m |-> 0, d |-> 0]
NoRel == [id |-> 0, user_id |-> 0, relatp_type |-> "", created_date |-> NoDate,
          rcmdn_list |-> << >>]

Min(a, b) == IF a < b THEN a ELSE b

\* The values of the ticked checkboxes, as getlist returns them: in page order.
Ticked(boxes) ==
    LET nth(i) == CHOOSE x \in boxes : Cardinality({ y \in boxes : y < x }) = i - 1
    IN  [i \in 1..Cardinality(boxes) |-> Recommendations[nth(i)]]

\* request.form.getlist('rcmdn'): every choice of at most MaxMethods checkboxes.
DesiredLists ==
    { Ticked(boxes) : boxes \in { b \in SUBSET (1..Len(Recommendations)) :
                                      Cardinality(b) <= MaxMethods } }

----------------------------------------------------------------------------
(* Calendar arithmetic of arrow.replace(months=+n) and replace(years=+n),  *)
(* which add a dateutil relativedelta: the month and year are advanced and *)
(* the day is clamped to the last day of the resulting month.              *)

IsLeap(y) == (y % 4 = 0 /\ y % 100 # 0) \/ y % 400 = 0

DaysInMonth(y, m) ==
    IF m = 2 THEN (IF IsLeap(y) THEN 29 ELSE 28)
    ELSE IF m \in {4, 6, 9, 11} THEN 30
    ELSE 31

\* A month shift that keeps the day of month as it is.
replace_months_noclamp(dt, n) ==
    LET total == dt.y * 12 + (dt.m - 1) + n
    IN  [y |-> total \div 12, m |-> (total % 12) + 1, d |-> dt.d]

replace_months(dt, n) ==
    LET total == dt.y * 12 + (dt.m - 1) + n
        ny == total \div 12
        nm == (total % 12) + 1
    IN  [y |-> ny, m |-> nm, d |-> Min(dt.d, DaysInMonth(ny, nm))]

replace_years(dt, n) ==
    [y |-> dt.y + n, m |-> dt.m, d |-> Min(dt.d, DaysInMonth(dt.y + n, dt.m))]

\* start_date < yr_from_now
DateLT(a, b) ==
    a.y * 10000 + a.m * 100 + a.d < b.y * 10000 + b.m * 100 + b.d

\* The months added after an event: 1 for 'fr' and 'fam', 4 in the else branch.
StepMonths_quarter(relatp_type) ==
    IF relatp_type = "fr" \/ relatp_type = "fam" THEN 1 ELSE 3

\* Only 'prf' takes the 4 month step.
StepMonths_strict(relatp_type) ==
    IF relatp_type = "prf" THEN 4 ELSE 1

StepMonths(relatp_type) ==
    IF relatp_type = "fr" \/ relatp_type = "fam" THEN 1 ELSE 4

\* contact_added: the form's category to the stored type.
RelatpTypeOf(relatp) ==
    IF relatp = "friend" THEN "fr"
    ELSE IF relatp = "family" THEN "fam"
    ELSE "prf"

----------------------------------------------------------------------------
(* Session values: Python stores integers, strings, None and lists under   *)
(* the keys of one dictionary.                                             *)

IntVal(n) == [kind |-> "int", int |-> n, str |-> "", list |-> << >>]
StrVal(s) == [kind |-> "str", int |-> 0, str |-> s, list |-> << >>]
NoneVal == [kind |-> "none", int |-> 0, str |-> "", list |-> << >>]
ListVal(l) == [kind |-> "list", int |-> 0, str |-> "", list |-> l]

SessionSet(s, key, val) ==
    [k \in DOMAIN s \cup {key} |-> IF k = key THEN val ELSE s[k]]

SessionDel(s, key) == [k \in DOMAIN s \ {key} |-> s[k]]

\* session.get('_flashes', [])
Flashes(s) == IF "_flashes" \in DOMAIN s THEN s["_flashes"].list ELSE << >>

\* Flask's flash(message): the pair (category, message) is appended to the
\* list under session['_flashes'].  The list is emptied when a template reads
\* the flashed messages; the templates are not part of the source, and the
\* handlers themselves never empty it.
flash(s, message) ==
    SessionSet(s, "_flashes", ListVal(Append(Flashes(s), << "message", message >>)))

----------------------------------------------------------------------------
VARIABLES
    users,          \* User table: id -> [email, password]
    relationships,  \* Relationship table: id -> row
    events,         \* Event table, in insertion order
    session,        \* the Flask session: key -> value
    resp,           \* response of the last request (template, redirect or error)
    pc,             \* position inside method_specification_success, or "idle"
    args,           \* its URL arguments user_id and relatp_id
    desired_list,   \* request.form.getlist('rcmdn')
    update_relatp,  \* the row being updated
    start_date,     \* the loop's current date
    yr_from_now,    \* the loop's end bound
    item,           \* position of desired_item in desired_list
    pending,        \* events added to db.session and not yet committed
    submits         \* method submissions served so far

vars == << users, relationships, events, session, resp, pc, args, desired_list,
           update_relatp, start_date, yr_from_now, item, pending, submits >>

locals == << pc, args, desired_list, update_relatp, start_date, yr_from_now,
             item, pending >>

db == << users, relationships, events >>

NoArgs == [user_id |-> 0, relatp_id |-> 0]

Init ==
    /\ users = [i \in {1} |-> [email |-> "a@x", password |-> "p1"]]
    /\ \E t \in {"fr", "fam", "prf"}, c \in CreatedDates :
          relationships = [r \in {1} |->
              [id |-> 1, user_id |-> 1, relatp_type |-> t, created_date |-> c,
               rcmdn_list |-> << >>]]
    /\ events = << >>
    /\ session = [k \in {} |-> StrVal("")]
    /\ resp = ""
    /\ pc = "idle"
    /\ args = NoArgs
    /\ desired_list = << >>
    /\ update_relatp = NoRel
    /\ start_date = NoDate
    /\ yr_from_now = NoDate
    /\ item = 0
    /\ pending = << >>
    /\ submits = 0

----------------------------------------------------------------------------
(* method_specification_success, lines 234-282.                            *)

\* Relationship.query.filter_by(user_id=user_id, id=relatp_id).first()
FirstRelationship(user_id, relatp_id) ==
    IF relatp_id \in DOMAIN relationships
       /\ relationships[relatp_id].user_id = user_id
    THEN relationships[relatp_id]
    ELSE NoRel

\* Lines 239-255: read the form, find the row, compute the loop's bounds.  A
\* missing row makes line 243 raise AttributeError and the request ends.
method_specification_success(user_id, relatp_id, rcmdn) ==
    /\ pc = "idle"
    /\ submits < MaxSubmits
    /\ submits' = submits + 1
    /\ LET row == FirstRelationship(user_id, relatp_id) IN
       IF row = NoRel
       THEN /\ resp' = "AttributeError"
            /\ UNCHANGED << db, session, locals >>
       ELSE /\ args' = [user_id |-> user_id, relatp_id |-> relatp_id]
            /\ desired_list' = rcmdn
            /\ update_relatp' = [row EXCEPT !.rcmdn_list = rcmdn]
            /\ start_date' = replace_months(row.created_date, 1)
            /\ yr_from_now' = replace_years(replace_months(row.created_date, 1), 1)
            /\ item' = 0
            /\ pending' = << >>
            /\ pc' = "while"
            /\ resp' = ""
            /\ UNCHANGED << db, session >>

\* Line 260: the while test.
method_specification_success_while ==
    /\ pc = "while"
    /\ IF DateLT(start_date, yr_from_now)
       THEN /\ pc' = "for"
            /\ item' = 1
       ELSE /\ pc' = "commit"
            /\ item' = 0
    /\ UNCHANGED << db, session, resp, args, desired_list, update_relatp,
                    start_date, yr_from_now, pending, submits >>

\* Lines 262-276: one pass of the for body, or the end of the for loop.
method_specification_success_for ==
    /\ pc = "for"
    /\ IF item <= Len(desired_list)
       THEN /\ pending' = Append(pending,
                   [user_id |-> args.user_id, relatp_id |-> args.relatp_id,
                    rcmdn |-> desired_list[item], scheduled_at |-> start_date])
            /\ start_date' = replace_months(start_date,
                                            StepMonths(update_relatp.relatp_type))
            /\ item' = item + 1
            /\ pc' = "for"
       ELSE /\ pc' = "while"
            /\ item' = 0
            /\ UNCHANGED << pending, start_date >>
    /\ UNCHANGED << db, session, resp, args, desired_list, update_relatp,
                    yr_from_now, submits >>

\* Lines 278-282: commit the row and the events, render the page.
method_specification_success_commit ==
    /\ pc = "commit"
    /\ relationships' = [relationships EXCEPT ![update_relatp.id] = update_relatp]
    /\ events' = events \o pending
    /\ resp' = "reach_out_added.html"
    /\ pc' = "idle"
    /\ args' = NoArgs
    /\ desired_list' = << >>
    /\ update_relatp' = NoRel
    /\ start_date' = NoDate
    /\ yr_from_now' = NoDate
    /\ item' = 0
    /\ pending' = << >>
    /\ UNCHANGED << users, session, submits >>

----------------------------------------------------------------------------
(* The other handlers.  Each serves a whole request in one step.           *)

\* Lines 183-214.  The category is mapped to a type, then line 202 reads the
\* name user_id, which the function never binds: NameError, nothing is added.
contact_added(relatp) ==
    /\ pc = "idle"
    /\ RelatpTypeOf(relatp) \in {"fr", "fam", "prf"}
    /\ resp' = "NameError"
    /\ UNCHANGED << db, session, locals, submits >>

\* Lines 314-337: setattr(relationship, type_button, value) and commit.  The
\* model keeps the row's relatp_type; first_name is not part of the state.
contact_display_hander(relatp_id, type_button, value) ==
    /\ pc = "idle"
    /\ IF relatp_id \notin DOMAIN relationships
       THEN /\ resp' = "AttributeError"
            /\ UNCHANGED relationships
       ELSE /\ resp' = "jsonify"
            /\ relationships' =
                  IF type_button = "relatp_type"
                  THEN [relationships EXCEPT ![relatp_id].relatp_type = value]
                  ELSE relationships
    /\ UNCHANGED << users, events, session, locals, submits >>

\* Lines 340-359: line 349 reads the unbound name user_id.
event_display ==
    /\ pc = "idle"
    /\ resp' = "NameError"
    /\ UNCHANGED << db, session, locals, submits >>

\* uq.filter_by(email=email).first(): the id of the user, 0 when there is none.
UserByEmail(email) ==
    IF \E i \in DOMAIN users : users[i].email = email
    THEN CHOOSE i \in DOMAIN users :
            /\ users[i].email = email
            /\ \A j \in DOMAIN users : users[j].email = email => i <= j
    ELSE 0

\* bcrypt.check_password_hash(generate_password_hash(form), stored): the
\* stored password is checked against the hash of the submitted one.
CheckPassword(form, stored) == form = stored

\* Lines 74-94.
handle_login(email, password) ==
    /\ pc = "idle"
    /\ Len(Flashes(session)) < MaxFlashes
    /\ LET uid == UserByEmail(email) IN
       IF uid # 0 /\ CheckPassword(password, users[uid].password)
       THEN /\ session' = SessionSet(SessionSet(flash(session, "Hello again!"),
                                                "user_email", StrVal(email)),
                                     "user_id", IntVal(uid))
            /\ resp' = "redirect:/landing-page"
       ELSE /\ session' = flash(session, "Oops! Email / Password mismatch: Try again.")
            /\ resp' = "redirect:/login"
    /\ UNCHANGED << db, locals, submits >>

\* Lines 97-105: the fb_id argument, None when absent, is stored in the session.
register(fb_id) ==
    /\ pc = "idle"
    /\ session' = SessionSet(session, "fb_id",
                             IF fb_id = "" THEN NoneVal ELSE StrVal(fb_id))
    /\ resp' = "registration_form.html"
    /\ UNCHANGED << db, locals, submits >>

\* Lines 108-144.
registration_success(email, password) ==
    /\ pc = "idle"
    /\ IF UserByEmail(email) = 0
       THEN LET new_id == Cardinality(DOMAIN users) + 1 IN
            /\ users' = [i \in DOMAIN users \cup {new_id} |->
                           IF i = new_id
                           THEN [email |-> email, password |-> password]
                           ELSE users[i]]
            /\ session' = SessionSet(SessionSet(session, "email", StrVal(email)),
                                     "user_id", IntVal(new_id))
            /\ resp' = "registration_success.html"
       ELSE /\ Len(Flashes(session)) < MaxFlashes
            /\ session' = flash(session, "Email " \o email \o " is taken.")
            /\ resp' = "redirect:/register"
            /\ UNCHANGED users
    /\ UNCHANGED << relationships, events, locals, submits >>

\* Lines 176-180.
add_contacts ==
    /\ pc = "idle"
    /\ resp' = "add_contact.html"
    /\ UNCHANGED << db, session, locals, submits >>

\* Lines 285-297: session["user_id"] raises KeyError when the key is absent.
landing_page ==
    /\ pc = "idle"
    /\ resp' = IF "user_id" \in DOMAIN session THEN "landing_page.html"
               ELSE "KeyError"
    /\ UNCHANGED << db, session, locals, submits >>

\* Lines 300-311: line 308 stores the string 'user_id' in the session.
contact_display(relatp_id) ==
    /\ pc = "idle"
    /\ session' = SessionSet(session, "user_id", StrVal("user_id"))
    /\ resp' = "contact_display.html"
    /\ UNCHANGED << db, locals, submits >>

\* Lines 362-368: del session["user_id"] raises KeyError when the key is
\* absent; otherwise the key is removed and a message is flashed.
process_logout ==
    /\ pc = "idle"
    /\ IF "user_id" \in DOMAIN session
       THEN /\ Len(Flashes(session)) < MaxFlashes
            /\ session' = flash(SessionDel(session, "user_id"), "Logged out.")
            /\ resp' = "logout.html"
       ELSE /\ resp' = "KeyError"
            /\ UNCHANGED session
    /\ UNCHANGED << db, locals, submits >>

----------------------------------------------------------------------------
(* Specifications.  Spec: the handlers that read and write relationships   *)
(* and events.  FairSpec: the same, where a request being served keeps     *)
(* running.  SessionSpec: the handlers a logged-in user visits, which read *)
(* and write the session.                                                  *)

Next ==
    \/ \E u \in UrlUserIds, r \in UrlRelatpIds, l \in DesiredLists :
          method_specification_success(u, r, l)
    \/ method_specification_success_while
    \/ method_specification_success_for
    \/ method_specification_success_commit
    \/ \E c \in {"friend", "family", "professional", "enemy"} : contact_added(c)
    \/ \E r \in UrlRelatpIds, b \in TypeButtons, v \in FormValues :
          contact_display_hander(r, b, v)
    \/ event_display

Spec == Init /\ [][Next]_vars

Running ==
    \/ method_specification_success_while
    \/ method_specification_success_for
    \/ method_specification_success_commit

FairSpec == Init /\ [][Next]_vars /\ WF_vars(Running)

SessionNext ==
    \/ \E e \in Emails, p \in Passwords : handle_login(e, p)
    \/ \E f \in FbIds : register(f)
    \/ \E e \in Emails, p \in Passwords : registration_success(e, p)
    \/ add_contacts
    \/ landing_page
    \/ \E r \in UrlRelatpIds : contact_display(r)
    \/ \E r \in UrlRelatpIds, b \in TypeButtons, v \in FormValues :
          contact_display_hander(r, b, v)
    \/ event_display
    \/ process_logout

SessionSpec == Init /\ [][SessionNext]_vars

----------------------------------------------------------------------------
(* Properties.                                                             *)

ValidTypes == {"fr", "fam", "prf"}

\* The relationship's creation date, read at line 246.
CreatedAt == update_relatp.created_date

\* The run is serving a recognised category.
InRun == pc # "idle" /\ update_relatp.relatp_type \in ValidTypes

\* The generation loop has ended and its events are about to be committed.
Generated == pc = "commit" /\ update_relatp.relatp_type \in ValidTypes

MonthIndex(dt) == dt.y * 12 + dt.m

PendingDates == { pending[i].scheduled_at : i \in DOMAIN pending }

\* The events of the run scheduled on date dt, in creation order.
GroupAt(dt) == SelectSeq(pending, LAMBDA e : e.scheduled_at = dt)

\* The months the claims give between two groups of a category.
ClaimedStep(relatp_type) == IF relatp_type = "prf" THEN 4 ELSE 1

\* C1: every event created by method_specification_success for a recognised
\* category and a non-empty method list is scheduled on a date d with
\* created_at + 1 month <= d < created_at + 13 months.
C1_DatesWithinYear ==
    (InRun /\ desired_list # << >>) =>
        \A i \in DOMAIN pending :
            /\ ~DateLT(pending[i].scheduled_at, replace_months(CreatedAt, 1))
            /\ DateLT(pending[i].scheduled_at, replace_months(CreatedAt, 13))

\* C2: for a method list of length k >= 1, every distinct scheduled date of a
\* finished generation carries exactly k events, one per method of the list,
\* in the list's order.
C2_GroupPerDate ==
    (Generated /\ desired_list # << >>) =>
        \A dt \in PendingDates :
            /\ Len(GroupAt(dt)) = Len(desired_list)
            /\ \A j \in 1..Len(desired_list) :
                  GroupAt(dt)[j].rcmdn = desired_list[j]

\* C3: a submission with an empty method list terminates: the handler reaches
\* its commit and response, having created no events.
C3_EmptyListTerminates ==
    (pc = "while" /\ desired_list = << >>)
        ~> (pc = "idle" /\ resp = "reach_out_added.html")

\* C4: a finished generation with k methods holds 12*k events for a friend or
\* family relationship and 3*k events for a professional one.
C4_EventCount ==
    Generated =>
        Len(pending) =
            (IF update_relatp.relatp_type = "prf" THEN 3 ELSE 12) * Len(desired_list)

\* C5: between two consecutive distinct scheduled dates of a run, in ascending
\* order, lies exactly 1 calendar month for a friend or family relationship and
\* exactly 4 calendar months for a professional one (the later date is the
\* earlier one with the month advanced and the day clamped to the month's
\* length), whatever the number of methods.
C5_StepBetweenDates ==
    InRun =>
        \A a \in PendingDates :
            LET later == { b \in PendingDates : DateLT(a, b) } IN
            later # {} =>
                LET nxt == CHOOSE b \in later : \A c \in later : ~DateLT(c, b) IN
                /\ MonthIndex(nxt) - MonthIndex(a)
                      = ClaimedStep(update_relatp.relatp_type)
                /\ nxt.d = Min(a.d, DaysInMonth(nxt.y, nxt.m))

\* C5 witness: a finished professional generation with two methods and at
\* least two scheduled dates.
C5_Witness ==
    /\ pc = "commit"
    /\ update_relatp.relatp_type = "prf"
    /\ Len(desired_list) = 2
    /\ Cardinality(PendingDates) >= 2

\* C6: the stored events of a relationship are those of a single generation:
\* no two stored events of one relationship have the same method and date.
C6_CreatedOnce ==
    \A i, j \in DOMAIN events :
        (i # j /\ events[i].relatp_id = events[j].relatp_id) =>
            ~(/\ events[i].rcmdn = events[j].rcmdn
              /\ events[i].scheduled_at = events[j].scheduled_at)

\* C7: for a relationship whose category is none of friend, family and
\* professional, the generation creates no events.
C7_UnrecognizedCategoryRejected ==
    (pc # "idle" /\ update_relatp.relatp_type \notin ValidTypes) =>
        pending = << >>

SetMin(S) == CHOOSE x \in S : \A y \in S : x <= y

\* The lengths of the months of the first i events of the run.
MonthLengths(i) ==
    { DaysInMonth(pending[j].scheduled_at.y, pending[j].scheduled_at.m) : j \in 1..i }

\* C7 as amended: a relationship whose type is none of 'fr', 'fam' and 'prf'
\* is not rejected: the generation creates events for it on the professional
\* cadence.  Event i lies in the month 1 + 4*(i-1) months after created_at's,
\* on the day that is the least of the created day and the lengths of the
\* months of the events up to i, and a finished generation for a non-empty
\* method list holds events.
C7_UnrecognizedScheduledAsProfessional ==
    (pc # "idle" /\ update_relatp.relatp_type \notin ValidTypes) =>
        /\ \A i \in DOMAIN pending :
              /\ MonthIndex(pending[i].scheduled_at)
                    = MonthIndex(CreatedAt) + 1 + 4 * (i - 1)
              /\ pending[i].scheduled_at.d
                    = SetMin({CreatedAt.d} \cup MonthLengths(i))
        /\ (pc = "commit" /\ desired_list # << >>) => pending # << >>

\* C7 witness: a finished generation for a relationship of type 'xyz' with at
\* least two events.
C7_Witness ==
    /\ pc = "commit"
    /\ update_relatp.relatp_type = "xyz"
    /\ Len(pending) >= 2

\* C9: every generated date has the day of month min(created day, days in the
\* date's month): a clamp in a short month does not lower the day of later
\* events.
C9_NoDayDrift ==
    InRun =>
        \A i \in DOMAIN pending :
            pending[i].scheduled_at.d =
                Min(CreatedAt.d, DaysInMonth(pending[i].scheduled_at.y,
                                             pending[i].scheduled_at.m))

\* C9 as amended: event i lies 1 + (i-1)*step months after created_at and its
\* day of month is the least of the created day and the lengths of the months
\* of the events up to i: each advance clamps the already clamped date, so a
\* short month lowers the day of all later events.
C9_ClampAccumulates ==
    InRun =>
        \A i \in DOMAIN pending :
            /\ MonthIndex(pending[i].scheduled_at)
                  = MonthIndex(CreatedAt) + 1
                      + (i - 1) * ClaimedStep(update_relatp.relatp_type)
            /\ pending[i].scheduled_at.d = SetMin({CreatedAt.d} \cup MonthLengths(i))

\* C9 witness: an event whose day is lower than both the created day and the
\* length of its own month.
C9_Witness ==
    /\ InRun
    /\ \E i \in DOMAIN pending :
          pending[i].scheduled_at.d <
              Min(CreatedAt.d, DaysInMonth(pending[i].scheduled_at.y,
                                           pending[i].scheduled_at.m))

\* The pages a logged-in user visits between login and logout.
OtherPages ==
    { "landing_page.html", "contact_display.html", "jsonify", "add_contact.html",
      "NameError", "AttributeError" }

LoggedIn(s) == "user_id" \in DOMAIN s /\ s["user_id"].kind = "int"

\* C10: once a user id is in the session, no page handler other than login,
\* registration and logout changes it.
C10_SessionIntegrity ==
    [][(LoggedIn(session) /\ resp' \in OtherPages) =>
          ("user_id" \in DOMAIN session' /\ session'["user_id"] = session["user_id"])]_vars

=============================================================================
